---- MODULE Spec2Model ----
(***************************************************************************)
(* Text-to-SQL pipeline: the LangGraph workflow of agents/graph.py, the    *)
(* four nodes of agents/nodes.py and DatabaseManager.execute_query of      *)
(* database/manager.py.                                                    *)
(*                                                                         *)
(* Texts (SQL, backend completions, error messages) are sequences of       *)
(* one-character strings, so that strip / upper / startswith / "in" /      *)
(* split / replace are computed the way Python computes them.              *)
(*                                                                         *)
(* The backtick character, which a TLA+ string cannot hold, is the       *)
(* element "BACKTICK".                                                   *)
(*                                                                         *)
(* An optional value is <<>> when the key is absent from the state and     *)
(* <<v>> when it is present with value v.                                  *)
(*                                                                         *)
(* The workflow is modelled as wired for a running pipeline: each node     *)
(* receives the db and llm collaborators, and the messages reducer         *)
(* appends every entry a node returns.                                     *)
(***************************************************************************)
EXTENDS Integers, Sequences, FiniteSets, TLC

----------------------------------------------------------------------------
(* Bounds of the exploration *)

\* number of generate_sql visits explored in one run
MaxGenVisits == 3

\* largest number of rows a read returns
MaxRows == 1

----------------------------------------------------------------------------
(* Python string operations *)

LowerChars == <<"a", "b", "c", "d", "e", "f", "g", "h", "i", "j", "k", "l", "m",
                "n", "o", "p", "q", "r", "s", "t", "u", "v", "w", "x", "y", "z">>

UpperChars == <<"A", "B", "C", "D", "E", "F", "G", "H", "I", "J", "K", "L", "M",
                "N", "O", "P", "Q", "R", "S", "T", "U", "V", "W", "X", "Y", "Z">>

\* the upper-case letter of each lower-case letter
UpperOf ==
    [c \in {LowerChars[i] : i \in 1..26} |->
        UpperChars[CHOOSE i \in 1..26 : LowerChars[i] = c]]

\* the lower-case letter of each upper-case letter
LowerOf ==
    [c \in {UpperChars[i] : i \in 1..26} |->
        LowerChars[CHOOSE i \in 1..26 : UpperChars[i] = c]]

UpperChar(c) == IF c \in DOMAIN UpperOf THEN UpperOf[c] ELSE c

LowerChar(c) == IF c \in DOMAIN LowerOf THEN LowerOf[c] ELSE c

\* str.upper()
Upper(s) == [i \in 1..Len(s) |-> UpperChar(s[i])]

\* str.lower()
Lower(s) == [i \in 1..Len(s) |-> LowerChar(s[i])]

IsSpace(c) == c \in {" ", "\n", "\t"}

RECURSIVE LStrip(_)
LStrip(s) ==
    IF s # <<>> /\ IsSpace(Head(s)) THEN LStrip(Tail(s)) ELSE s

RECURSIVE RStrip(_)
RStrip(s) ==
    IF s # <<>> /\ IsSpace(s[Len(s)]) THEN RStrip(SubSeq(s, 1, Len(s) - 1)) ELSE s

\* str.strip()
Strip(s) == RStrip(LStrip(s))

\* s.startswith(p)
StartsWith(s, p) == Len(p) <= Len(s) /\ SubSeq(s, 1, Len(p)) = p

\* p in s
Contains(s, p) ==
    \E i \in 1..(Len(s) - Len(p) + 1) : SubSeq(s, i, i + Len(p) - 1) = p

\* s.find(p): first index (1-based) at which p occurs in s, 0 if none
Find(s, p) ==
    IF Contains(s, p)
    THEN CHOOSE i \in 1..(Len(s) - Len(p) + 1) :
            /\ SubSeq(s, i, i + Len(p) - 1) = p
            /\ \A j \in 1..(i - 1) : SubSeq(s, j, j + Len(p) - 1) # p
    ELSE 0

\* s.split(p)[1], for s in which p occurs: the text between the first and
\* second occurrence of p (to the end of s when there is no second one)
SplitSecond(s, p) ==
    LET rest == SubSeq(s, Find(s, p) + Len(p), Len(s))
    IN  IF Contains(rest, p) THEN SubSeq(rest, 1, Find(rest, p) - 1) ELSE rest

\* s.replace(p, ""): every occurrence of p removed, left to right
RECURSIVE RemoveAll(_, _)
RemoveAll(s, p) ==
    IF Contains(s, p)
    THEN SubSeq(s, 1, Find(s, p) - 1)
            \o RemoveAll(SubSeq(s, Find(s, p) + Len(p), Len(s)), p)
    ELSE s

\* truthiness of an optional text: present and non-empty
Truthy(opt) == opt # <<>> /\ opt[1] # <<>>

Absent == <<>>

Some(v) == <<v>>

----------------------------------------------------------------------------
(* Literal texts of the program *)

\* 'SELECT'
KW_SELECT ==
    <<"S", "E", "L", "E", "C", "T">>

\* 'SHOW'
KW_SHOW ==
    <<"S", "H", "O", "W">>

\* 'DESCRIBE'
KW_DESCRIBE ==
    <<"D", "E", "S", "C", "R", "I", "B", "E">>

\* 'DESC'
KW_DESC ==
    <<"D", "E", "S", "C">>

\* 'EXPLAIN'
KW_EXPLAIN ==
    <<"E", "X", "P", "L", "A", "I", "N">>

\* 'DROP'
KW_DROP ==
    <<"D", "R", "O", "P">>

\* 'DELETE'
KW_DELETE ==
    <<"D", "E", "L", "E", "T", "E">>

\* 'UPDATE'
KW_UPDATE ==
    <<"U", "P", "D", "A", "T", "E">>

\* 'INSERT'
KW_INSERT ==
    <<"I", "N", "S", "E", "R", "T">>

\* '[BACKTICK][BACKTICK][BACKTICK]'
FENCE ==
    <<"BACKTICK", "BACKTICK", "BACKTICK">>

\* 'sql'
LANG_TAG ==
    <<"s", "q", "l">>

\* 'gone away'
GONE_AWAY ==
    <<"g", "o", "n", "e", " ", "a", "w", "a", "y">>

\* 'lost connection'
LOST_CONNECTION ==
    <<"l", "o", "s", "t", " ", "c", "o", "n", "n", "e", "c", "t", "i", "o", "n">>

\* 'Query executed successfully'
WRITE_MESSAGE ==
    <<"Q", "u", "e", "r", "y", " ", "e", "x", "e", "c", "u", "t", "e", "d", " ", "s", "u", "c", "c", "e", "s", "s", "f", "u", "l", "l", "y">>

----------------------------------------------------------------------------
(* Texts the collaborators produce: completions of the text-generation     *)
(* backend, messages of raised exceptions                                  *)

\* 'SELECT 1'
Q_SELECT ==
    <<"S", "E", "L", "E", "C", "T", " ", "1">>

\* ' select 1\n'
Q_SELECT_PADDED ==
    <<" ", "s", "e", "l", "e", "c", "t", " ", "1", "\n">>

\* '[BACKTICK][BACKTICK][BACKTICK]sql\nSELECT 1\n[BACKTICK][BACKTICK][BACKTICK]'
Q_SELECT_FENCED ==
    <<"BACKTICK", "BACKTICK", "BACKTICK", "s", "q", "l", "\n", "S", "E", "L", "E", "C", "T", " ", "1", "\n", "BACKTICK", "BACKTICK", "BACKTICK">>

\* '[BACKTICK][BACKTICK][BACKTICK]sql\nSELECT mysql_id\n[BACKTICK][BACKTICK][BACKTICK]'
Q_FENCED_MYSQL ==
    <<"BACKTICK", "BACKTICK", "BACKTICK", "s", "q", "l", "\n", "S", "E", "L", "E", "C", "T", " ", "m", "y", "s", "q", "l", "_", "i", "d", "\n", "BACKTICK", "BACKTICK", "BACKTICK">>

\* 'SELECT 1;DROP t'
Q_SELECT_DROP ==
    <<"S", "E", "L", "E", "C", "T", " ", "1", ";", "D", "R", "O", "P", " ", "t">>

\* 'SHOW TABLES'
Q_SHOW ==
    <<"S", "H", "O", "W", " ", "T", "A", "B", "L", "E", "S">>

\* 'describe t'
Q_DESCRIBE ==
    <<"d", "e", "s", "c", "r", "i", "b", "e", " ", "t">>

\* 'DESC t'
Q_DESC ==
    <<"D", "E", "S", "C", " ", "t">>

\* 'Explain t'
Q_EXPLAIN ==
    <<"E", "x", "p", "l", "a", "i", "n", " ", "t">>

\* 'SET x=1'
Q_SET ==
    <<"S", "E", "T", " ", "x", "=", "1">>

\* 'DROP t'
Q_DROP ==
    <<"D", "R", "O", "P", " ", "t">>

\* 'delete t'
Q_DELETE ==
    <<"d", "e", "l", "e", "t", "e", " ", "t">>

\* 'Update t'
Q_UPDATE ==
    <<"U", "p", "d", "a", "t", "e", " ", "t">>

\* 'insert t'
Q_INSERT ==
    <<"i", "n", "s", "e", "r", "t", " ", "t">>

\* 'SHOW updates'
Q_SHOW_UPDATES ==
    <<"S", "H", "O", "W", " ", "u", "p", "d", "a", "t", "e", "s">>

\* ''
Q_EMPTY ==
    <<>>

\* ' \n'
Q_BLANK ==
    <<" ", "\n">>

\* 'timeout'
E_BACKEND ==
    <<"t", "i", "m", "e", "o", "u", "t">>

\* 'syntax error'
E_SYNTAX ==
    <<"s", "y", "n", "t", "a", "x", " ", "e", "r", "r", "o", "r">>

\* 'Server has gone away'
E_GONE ==
    <<"S", "e", "r", "v", "e", "r", " ", "h", "a", "s", " ", "g", "o", "n", "e", " ", "a", "w", "a", "y">>

\* 'Lost connection'
E_LOST ==
    <<"L", "o", "s", "t", " ", "c", "o", "n", "n", "e", "c", "t", "i", "o", "n">>

\* '42'
A_TEXT ==
    <<"4", "2">>

----------------------------------------------------------------------------
(* database/manager.py: DatabaseManager.execute_query *)

\* column names of cursor.description for a statement that returns rows
COLUMNS == <<"c1">>

\* what the database does during one execute_query call: alive is whether
\* the manager holds a connected connection when the call starts, exc1 is the
\* message of the exception the first execution raises (Absent: none), exc2
\* that of the execution after a reconnect, rows what fetchall returns
DbOutcome(alive, exc1, exc2, rows) ==
    [alive |-> alive, exc1 |-> exc1, exc2 |-> exc2, rows |-> rows]

ReadPrefixes == {KW_SELECT, KW_SHOW, KW_DESCRIBE, KW_DESC, KW_EXPLAIN}

\* IsReadStatement recognising SELECT only
IsReadStatement_selectOnly(query_upper) ==
    StartsWith(query_upper, KW_SELECT)

IsReadStatement(query_upper) ==
    \E p \in ReadPrefixes : StartsWith(query_upper, p)

\* the body of the try blocks when nothing raises
RunStatement(query_upper, rows) ==
    IF IsReadStatement(query_upper)
    THEN [success |-> TRUE, data |-> rows, columns |-> Some(COLUMNS), commits |-> 0]
    ELSE [success |-> TRUE, data |-> WRITE_MESSAGE, columns |-> Absent, commits |-> 1]

Failed(message) ==
    [success |-> FALSE, data |-> message, columns |-> Absent, commits |-> 0]

\* IsStaleConnection comparing the message without lower-casing it
IsStaleConnection_caseSensitive(e) ==
    Contains(e, GONE_AWAY) \/ Contains(e, LOST_CONNECTION)

IsStaleConnection(e) ==
    Contains(Lower(e), GONE_AWAY) \/ Contains(Lower(e), LOST_CONNECTION)

\* the connect of a call that starts without a live connection
ConnectOnDemand(out) == [connects |-> IF out.alive THEN 0 ELSE 1]

\* the returned (success, data, columns), with the number of commits,
\* executions of the statement, reconnects after an error and connects on
\* demand the call made
execute_query(query, out) ==
    LET query_upper == Upper(Strip(query))
    IN  ConnectOnDemand(out) @@
        IF out.exc1 = Absent
        THEN RunStatement(query_upper, out.rows)
                @@ [executions |-> 1, reconnects |-> 0]
        ELSE IF IsStaleConnection(out.exc1[1])
             THEN IF out.exc2 = Absent
                  THEN RunStatement(query_upper, out.rows)
                          @@ [executions |-> 2, reconnects |-> 1]
                  ELSE Failed(out.exc2[1])
                          @@ [executions |-> 2, reconnects |-> 1]
             ELSE Failed(out.exc1[1])
                     @@ [executions |-> 1, reconnects |-> 0]

----------------------------------------------------------------------------
(* agents/nodes.py *)

\* what one call of the text-generation backend does: raise with a message,
\* or return a completion
LlmOutcome(raises, text) == [raises |-> raises, text |-> text]

ERR_NO_SQL == <<"No SQL to execute">>

ERR_UNSAFE == <<"Unsafe SQL detected">>

ErrGeneration(e) == <<"SQL generation failed : ", e>>

ErrExecution(data) == <<"Execution failed : ", data>>

\* the cleanup of a completion: strip, and for a fenced completion the first
\* fenced segment without the language tag
CleanSql(raw) ==
    LET sql == Strip(raw)
    IN  IF StartsWith(sql, FENCE)
        THEN Strip(RemoveAll(SplitSecond(sql, FENCE), LANG_TAG))
        ELSE sql

generate_sql_node(state, llm_out) ==
    IF llm_out.raises
    THEN [error |-> Some(ErrGeneration(llm_out.text)),
          messages |-> << <<"Error : ", llm_out.text>> >>]
    ELSE [sql_query |-> Some(CleanSql(llm_out.text)),
          messages |-> << <<"SQL generated">> >>]

dangerous == {KW_DROP, KW_DELETE, KW_UPDATE, KW_INSERT}

\* the safety check without the upper-casing
IsUnsafe_caseSensitive(sql) ==
    ~StartsWith(sql, KW_SELECT)
    /\ \E d \in dangerous : Contains(sql, d)

\* the safety check of execute_sql_node
IsUnsafe(sql) ==
    LET sql_upper == Upper(sql)
    IN  ~StartsWith(sql_upper, KW_SELECT)
        /\ \E d \in dangerous : Contains(sql_upper, d)

\* results of the repair path: the executor's values as returned
RepairResults(r) ==
    [columns |-> r.columns, rows |-> r.data, row_count |-> Len(r.data)]

\* results of the direct path: normalised when columns is None or empty
DirectResults(r) ==
    [columns |-> IF Truthy(r.columns) THEN r.columns ELSE Some(<<>>),
     rows |-> IF Truthy(r.columns) THEN r.data ELSE <<>>,
     row_count |-> IF Truthy(r.columns) THEN Len(r.data) ELSE 0]

\* ReportExecution counting a successful execution as an attempt
ReportExecution_countsSuccess(r, retry_count) ==
    IF r.success
    THEN [results |-> Some(DirectResults(r)),
          retry_count |-> retry_count + 1,
          messages |-> << <<"Query executed successfully">> >>]
    ELSE [error |-> Some(ErrExecution(r.data)),
          retry_count |-> retry_count + 1,
          messages |-> << <<"Error: ", r.data>> >>]

\* the final if/else of execute_sql_node on the executor result r that
\* success, data, columns hold at that point
ReportExecution(r, retry_count) ==
    IF r.success
    THEN [results |-> Some(DirectResults(r)),
          messages |-> << <<"Query executed successfully">> >>]
    ELSE [error |-> Some(ErrExecution(r.data)),
          retry_count |-> retry_count + 1,
          messages |-> << <<"Error: ", r.data>> >>]

\* the node's update, with the executor calls it made (in order: statement,
\* what the database did, what execute_query returned) and the number of
\* repair-generator calls
execute_sql_node(state, out1, llm_out, out2) ==
    IF ~Truthy(state.sql_query)
    THEN [update |-> [error |-> Some(ERR_NO_SQL)], calls |-> <<>>, repairs |-> 0]
    ELSE
    LET sql == state.sql_query[1]
        retry_count == state.retry_count
    IN  IF IsUnsafe(sql)
        THEN [update |-> [error |-> Some(ERR_UNSAFE)], calls |-> <<>>, repairs |-> 0]
        ELSE
        LET first == execute_query(sql, out1)
            call1 == [query |-> sql, out |-> out1, result |-> first]
        IN  IF ~first.success /\ retry_count < 2
            THEN IF llm_out.raises
                 THEN [update |-> ReportExecution(first, retry_count),
                       calls |-> <<call1>>, repairs |-> 1]
                 ELSE
                 LET fixed_sql == CleanSql(llm_out.text)
                     second == execute_query(fixed_sql, out2)
                     call2 == [query |-> fixed_sql, out |-> out2, result |-> second]
                 IN  IF second.success
                     THEN [update |->
                             [results |-> Some(RepairResults(second)),
                              sql_query |-> Some(fixed_sql),
                              retry_count |-> retry_count + 1,
                              messages |-> << <<"Query executed after retry">> >>],
                           calls |-> <<call1, call2>>, repairs |-> 1]
                     ELSE [update |-> ReportExecution(second, retry_count),
                           calls |-> <<call1, call2>>, repairs |-> 1]
            ELSE [update |-> ReportExecution(first, retry_count),
                  calls |-> <<call1>>, repairs |-> 0]

\* truthiness of the answer: a backend completion may be the empty text
AnswerTruthy(opt) ==
    opt # Absent /\ ~(opt[1].kind = "backend" /\ opt[1].text = <<>>)

\* format_answer_node without the short-circuit on error
format_answer_node_noShortCircuit(state, llm_out) ==
    IF state.results = Absent
    THEN [update |-> [answer |-> Some([kind |-> "no results"]),
                      messages |-> << <<"No results">> >>],
          llm_calls |-> 0]
    ELSE IF llm_out.raises
    THEN [update |-> [answer |-> Some([kind |-> "template",
                                       row_count |-> state.results[1].row_count]),
                      messages |-> << <<"Basic answer provided">> >>],
          llm_calls |-> 1]
    ELSE [update |-> [answer |-> Some([kind |-> "backend", text |-> llm_out.text]),
                      messages |-> << <<"Answer formatted">> >>],
          llm_calls |-> 1]

\* format_answer_node looking at results before error
format_answer_node_resultsFirst(state, llm_out) ==
    IF state.results # Absent
    THEN IF llm_out.raises
         THEN [update |-> [answer |-> Some([kind |-> "template",
                                            row_count |-> state.results[1].row_count]),
                           messages |-> << <<"Basic answer provided">> >>],
               llm_calls |-> 1]
         ELSE [update |-> [answer |-> Some([kind |-> "backend", text |-> llm_out.text]),
                           messages |-> << <<"Answer formatted">> >>],
               llm_calls |-> 1]
    ELSE IF Truthy(state.error)
    THEN [update |-> [answer |-> Some([kind |-> "error", error |-> state.error[1]]),
                      messages |-> << <<"AIMessage">> >>],
          llm_calls |-> 0]
    ELSE [update |-> [answer |-> Some([kind |-> "no results"]),
                      messages |-> << <<"No results">> >>],
          llm_calls |-> 0]

\* format_answer_node reporting a backend failure as error, as the generator does
format_answer_node_failureAsError(state, llm_out) ==
    IF Truthy(state.error)
    THEN [update |-> [answer |-> Some([kind |-> "error", error |-> state.error[1]]),
                      messages |-> << <<"AIMessage">> >>],
          llm_calls |-> 0]
    ELSE IF state.results = Absent
    THEN [update |-> [answer |-> Some([kind |-> "no results"]),
                      messages |-> << <<"No results">> >>],
          llm_calls |-> 0]
    ELSE IF llm_out.raises
    THEN [update |-> [error |-> Some(<<"Formatting failed : ", llm_out.text>>),
                      messages |-> << <<"Error : ", llm_out.text>> >>],
          llm_calls |-> 1]
    ELSE [update |-> [answer |-> Some([kind |-> "backend", text |-> llm_out.text]),
                      messages |-> << <<"Answer formatted">> >>],
          llm_calls |-> 1]

\* the node's update and the number of backend calls it made
format_answer_node(state, llm_out) ==
    IF Truthy(state.error)
    THEN [update |-> [answer |-> Some([kind |-> "error", error |-> state.error[1]]),
                      messages |-> << <<"AIMessage">> >>],
          llm_calls |-> 0]
    ELSE IF state.results = Absent
    THEN [update |-> [answer |-> Some([kind |-> "no results"]),
                      messages |-> << <<"No results">> >>],
          llm_calls |-> 0]
    ELSE IF llm_out.raises
    THEN [update |-> [answer |-> Some([kind |-> "template",
                                       row_count |-> state.results[1].row_count]),
                      messages |-> << <<"Basic answer provided">> >>],
          llm_calls |-> 1]
    ELSE [update |-> [answer |-> Some([kind |-> "backend", text |-> llm_out.text]),
                      messages |-> << <<"Answer formatted">> >>],
          llm_calls |-> 1]

\* what the scorer does: raise, or return a score
ScorerOutcome(raises, score) == [raises |-> raises, score |-> score]

\* evaluate_node appending the score to the answer
evaluate_node_rewritesAnswer(state, scorer_out) ==
    IF ~AnswerTruthy(state.answer) \/ ~Truthy(state.sql_query)
    THEN [update |-> [messages |-> << <<"Skipping evaluation">> >>],
          scorer_calls |-> 0]
    ELSE IF scorer_out.raises
    THEN [update |-> [messages |-> << <<"Evaluation skipped">> >>],
          scorer_calls |-> 1]
    ELSE [update |-> [evaluation_score |-> Some(scorer_out.score),
                      answer |-> Some([kind |-> "scored", answer |-> state.answer[1],
                                       score |-> scorer_out.score]),
                      messages |-> << <<"Evaluation: ", scorer_out.score>> >>],
          scorer_calls |-> 1]

\* evaluate_node scoring a failed evaluation as zero
evaluate_node_failureScoresZero(state, scorer_out) ==
    IF ~AnswerTruthy(state.answer) \/ ~Truthy(state.sql_query)
    THEN [update |-> [messages |-> << <<"Skipping evaluation">> >>],
          scorer_calls |-> 0]
    ELSE IF scorer_out.raises
    THEN [update |-> [evaluation_score |-> Some(0),
                      messages |-> << <<"Evaluation skipped">> >>],
          scorer_calls |-> 1]
    ELSE [update |-> [evaluation_score |-> Some(scorer_out.score),
                      messages |-> << <<"Evaluation: ", scorer_out.score>> >>],
          scorer_calls |-> 1]

\* the node's update and the number of scorer calls it made
evaluate_node(state, scorer_out) ==
    IF ~AnswerTruthy(state.answer) \/ ~Truthy(state.sql_query)
    THEN [update |-> [messages |-> << <<"Skipping evaluation">> >>],
          scorer_calls |-> 0]
    ELSE IF scorer_out.raises
    THEN [update |-> [messages |-> << <<"Evaluation skipped">> >>],
          scorer_calls |-> 1]
    ELSE [update |-> [evaluation_score |-> Some(scorer_out.score),
                      messages |-> << <<"Evaluation: ", scorer_out.score>> >>],
          scorer_calls |-> 1]

----------------------------------------------------------------------------
(* agents/graph.py and agents/state.py *)

\* check_execution with the retry bound forgotten
check_execution_unbounded(state) ==
    IF Truthy(state.error) THEN "generate_sql" ELSE "format_answer"

\* check_execution with the retry bound off by one
check_execution_bound3(state) ==
    IF Truthy(state.error) /\ state.retry_count < 3
    THEN "generate_sql"
    ELSE "format_answer"

\* check_execution looking at the retry count only
check_execution_ignoresError(state) ==
    IF state.retry_count < 2 THEN "generate_sql" ELSE "format_answer"

\* the conditional edge after execute_sql
check_execution(state) ==
    IF Truthy(state.error) /\ state.retry_count < 2
    THEN "generate_sql"
    ELSE "format_answer"

\* Merge with messages overridden like every other key
Merge_overwritesMessages(state, update) ==
    [k \in DOMAIN state |->
        IF k \in DOMAIN update THEN update[k] ELSE state[k]]

\* AgentState reducers: messages accumulate, every other key of the update
\* overrides, a key absent from the update keeps its value
Merge(state, update) ==
    [k \in DOMAIN state |->
        IF k \in DOMAIN update
        THEN IF k = "messages" THEN state[k] \o update[k] ELSE update[k]
        ELSE state[k]]

----------------------------------------------------------------------------
(* utils/validator.py *)

\* the word the gate's backend is asked to return for a database query
TRUE_WORD == <<"T", "R", "U", "E">>

\* the length below which an output around the word is still accepted
GATE_MAX_LEN == 10

\* true_pattern.match(result): the pattern ^TRUE$ without regard to case
MatchesTruePattern(result) == Upper(result) = TRUE_WORD

\* re.sub(r"[^A-Z]", "", s): s without every character but A to Z
OnlyUpperLetters(s) ==
    SelectSeq(s, LAMBDA c : c \in {UpperChars[i] : i \in 1..26})

\* validate_query accepting an output around the word whatever its length
validate_query_noLengthLimit(query, llm_out) ==
    IF llm_out.raises
    THEN [is_sql_query |-> TRUE, response_text |-> Absent]
    ELSE
    LET result == Strip(llm_out.text)
    IN  IF MatchesTruePattern(result)
        THEN [is_sql_query |-> TRUE, response_text |-> Absent]
        ELSE IF /\ Contains(Upper(result), TRUE_WORD)
                /\ OnlyUpperLetters(Upper(result)) = TRUE_WORD
        THEN [is_sql_query |-> TRUE, response_text |-> Absent]
        ELSE [is_sql_query |-> FALSE, response_text |-> Some(result)]

\* validate_query answering a backend failure with a refusal
validate_query_failsClosed(query, llm_out) ==
    IF llm_out.raises
    THEN [is_sql_query |-> FALSE, response_text |-> Some(llm_out.text)]
    ELSE
    LET result == Strip(llm_out.text)
    IN  IF MatchesTruePattern(result)
        THEN [is_sql_query |-> TRUE, response_text |-> Absent]
        ELSE IF /\ Contains(Upper(result), TRUE_WORD)
                /\ Len(result) < GATE_MAX_LEN
                /\ OnlyUpperLetters(Upper(result)) = TRUE_WORD
        THEN [is_sql_query |-> TRUE, response_text |-> Absent]
        ELSE [is_sql_query |-> FALSE, response_text |-> Some(result)]

\* the returned (is_sql_query, response) for what the gate's backend call did
validate_query(query, llm_out) ==
    IF llm_out.raises
    THEN [is_sql_query |-> TRUE, response_text |-> Absent]
    ELSE
    LET result == Strip(llm_out.text)
    IN  IF MatchesTruePattern(result)
        THEN [is_sql_query |-> TRUE, response_text |-> Absent]
        ELSE IF /\ Contains(Upper(result), TRUE_WORD)
                /\ Len(result) < GATE_MAX_LEN
                /\ OnlyUpperLetters(Upper(result)) = TRUE_WORD
        THEN [is_sql_query |-> TRUE, response_text |-> Absent]
        ELSE [is_sql_query |-> FALSE, response_text |-> Some(result)]

\* 'TRUE'
G_TRUE ==
    <<"T", "R", "U", "E">>

\* 'true'
G_TRUE_LOWER ==
    <<"t", "r", "u", "e">>

\* ' True\n'
G_TRUE_PADDED ==
    <<" ", "T", "r", "u", "e", "\n">>

\* ''TRUE'.'
G_TRUE_QUOTED ==
    <<"'", "T", "R", "U", "E", "'", ".">>

\* '**TRUE**!!'
G_TRUE_STARS ==
    <<"*", "*", "T", "R", "U", "E", "*", "*", "!", "!">>

\* 'not true'
G_NOT_TRUE ==
    <<"n", "o", "t", " ", "t", "r", "u", "e">>

\* 'TRUEish'
G_TRUEISH ==
    <<"T", "R", "U", "E", "i", "s", "h">>

\* 'Hello! Ask me about data.'
G_GREETING ==
    <<"H", "e", "l", "l", "o", "!", " ", "A", "s", "k", " ", "m", "e", " ", "a", "b", "o", "u", "t", " ", "d", "a", "t", "a", ".">>

\* 'Hi'
G_HI ==
    <<"H", "i">>

\* completions the backend may return where the gate asks
GateCompletions ==
    {G_TRUE, G_TRUE_LOWER, G_TRUE_PADDED, G_TRUE_QUOTED, G_TRUE_STARS,
     G_NOT_TRUE, G_TRUEISH, G_GREETING, G_HI, Q_EMPTY}

----------------------------------------------------------------------------
(* The collaborators *)

\* completions the backend may return where SQL is asked for
SqlCompletions ==
    {Q_SELECT, Q_SELECT_PADDED, Q_SELECT_FENCED, Q_FENCED_MYSQL, Q_SELECT_DROP,
     Q_SHOW, Q_DESCRIBE, Q_DESC, Q_EXPLAIN, Q_SET, Q_DROP, Q_DELETE, Q_UPDATE,
     Q_INSERT, Q_SHOW_UPDATES, Q_EMPTY, Q_BLANK}

\* completions the backend may return where a corrected SQL is asked for
RepairCompletions == {Q_SELECT_FENCED, Q_UPDATE, Q_SET, Q_EMPTY}

\* completions of a backend stub that always returns safe SQL
SafeCompletions == {Q_SELECT, Q_SELECT_PADDED, Q_SELECT_FENCED, Q_SELECT_DROP}

\* behaviours of the llm collaborator: "any" backend, a stub that always
\* returns safe SQL, a stub whose every call raises
LlmKinds == {"any", "safe", "fails"}

\* behaviours of the db collaborator: "any" database, a stub whose every
\* execute_query fails, a stub whose every execute_query returns one row at
\* the first execution
DbKinds == {"any", "fails", "one_row"}

SqlOutcomes(l) ==
    CASE l = "fails" -> {LlmOutcome(TRUE, E_BACKEND)}
      [] l = "safe"  -> {LlmOutcome(FALSE, t) : t \in SafeCompletions}
      [] OTHER       -> {LlmOutcome(TRUE, E_BACKEND)}
                            \cup {LlmOutcome(FALSE, t) : t \in SqlCompletions}

RepairOutcomes(l) ==
    CASE l = "fails" -> {LlmOutcome(TRUE, E_BACKEND)}
      [] l = "safe"  -> {LlmOutcome(FALSE, t) : t \in SafeCompletions}
      [] OTHER       -> {LlmOutcome(TRUE, E_BACKEND)}
                            \cup {LlmOutcome(FALSE, t) : t \in RepairCompletions}

AnswerOutcomes(l) ==
    CASE l = "fails" -> {LlmOutcome(TRUE, E_BACKEND)}
      [] l = "safe"  -> {LlmOutcome(FALSE, A_TEXT)}
      [] OTHER       -> {LlmOutcome(TRUE, E_BACKEND), LlmOutcome(FALSE, A_TEXT),
                         LlmOutcome(FALSE, <<>>)}

GateOutcomes(l) ==
    CASE l = "fails" -> {LlmOutcome(TRUE, E_BACKEND)}
      [] l = "safe"  -> {LlmOutcome(FALSE, t) : t \in SafeCompletions}
      [] OTHER       -> {LlmOutcome(TRUE, E_BACKEND)}
                            \cup {LlmOutcome(FALSE, t) : t \in GateCompletions}

ScorerOutcomes(l) ==
    CASE l = "fails" -> {ScorerOutcome(TRUE, 0)}
      [] OTHER       -> {ScorerOutcome(TRUE, 0), ScorerOutcome(FALSE, 0),
                         ScorerOutcome(FALSE, 1)}

RowSets == {[i \in 1..n |-> "row"] : n \in 0..MaxRows}

FailingDbOutcomes ==
    {DbOutcome(TRUE, Some(E_SYNTAX), Absent, <<>>),
     DbOutcome(TRUE, Some(E_GONE), Some(E_LOST), <<>>)}

SucceedingDbOutcomes ==
    {DbOutcome(TRUE, Absent, Absent, rows) : rows \in RowSets}
        \cup {DbOutcome(TRUE, Some(E_LOST), Absent, <<"row">>),
              DbOutcome(FALSE, Some(E_GONE), Absent, <<>>)}

OneRowDbOutcomes == {DbOutcome(TRUE, Absent, Absent, <<"row">>)}

DbOutcomes(d) ==
    CASE d = "fails"   -> FailingDbOutcomes
      [] d = "one_row" -> OneRowDbOutcomes
      [] OTHER         -> FailingDbOutcomes \cup SucceedingDbOutcomes

----------------------------------------------------------------------------
(* The pipeline run *)

VARIABLES
    state,  \* the AgentState of the run
    node,   \* the node the workflow runs next; "END" when the run is over
    db,     \* behaviour of the db collaborator of the run
    llm,    \* behaviour of the llm collaborator of the run
    last,   \* the latest node visit: its update and the collaborator calls it made
    exec_outcome,  \* how the latest execute_sql visit ended
    validation,  \* the gate of the request: its stage and what validate_query returned
    runs,        \* requests handled side by side: the workflow run of each
    checkpoints  \* the checkpoints saved, by checkpointer and thread id

vars == <<state, node, db, llm, last, exec_outcome, validation, runs, checkpoints>>

USER_QUERY == "Count the number of students"

SCHEMA == "DATABASE SCHEMA"

\* initial_state of the caller, keys it leaves out being absent
initial_state ==
    [messages |-> << <<"Human", USER_QUERY>> >>,
     user_query |-> USER_QUERY,
     schema |-> SCHEMA,
     retry_count |-> 0,
     sql_query |-> Absent,
     results |-> Absent,
     answer |-> Absent,
     error |-> Absent,
     evaluation_score |-> Absent]

\* the record of one node visit: the update it returned, its executor calls,
\* and what its calls of the backend and of the scorer did, in order
Visit(name, update, calls, backend, scorer) ==
    [node |-> name, update |-> update, calls |-> calls,
     backend |-> backend, backend_calls |-> Len(backend),
     scorer |-> scorer, scorer_calls |-> Len(scorer)]

\* the outcome of a collaborator call the visit made, none if it made none
Made(n, outcome) == IF n = 0 THEN <<>> ELSE <<outcome>>

\* the requests handled side by side
Runs == {1, 2}

\* values datetime.now().timestamp() may return when a request is handled
Timestamps == {1, 2}

\* a request whose workflow has not been invoked
IdleRun ==
    [node |-> "NONE", state |-> initial_state, saver |-> 0, thread_id |-> <<>>,
     outcomes |-> <<>>, final |-> Absent]

\* the gate of a run: stage "none" when the workflow is invoked without the
\* gate, "pending" before validate_query has returned, "done" after
Validation(stage, r) ==
    [stage |-> stage, is_sql_query |-> r.is_sql_query,
     response_text |-> r.response_text]

\* a workflow invoked on initial_state
Init ==
    /\ state = initial_state
    /\ node = "generate_sql"
    /\ db \in DbKinds
    /\ llm \in LlmKinds
    /\ last = Visit("START", initial_state, <<>>, <<>>, <<>>)
    /\ exec_outcome = "none"
    /\ validation = Validation("none", [is_sql_query |-> TRUE, response_text |-> Absent])
    /\ runs = [r \in Runs |-> IdleRun]
    /\ checkpoints = <<>>

\* the workflow is invoked: directly, or by the handler after the gate let
\* the request in
PipelineEntered == validation.stage # "pending" /\ validation.is_sql_query

\* number of generate_sql visits so far: each appends one trace entry
GenVisits(s) ==
    Cardinality({i \in 1..Len(s.messages) :
                    s.messages[i][1] \in {"SQL generated", "Error : "}})

GenerateSql ==
    /\ node = "generate_sql"
    /\ PipelineEntered
    /\ GenVisits(state) < MaxGenVisits
    /\ \E llm_out \in SqlOutcomes(llm) :
        LET update == generate_sql_node(state, llm_out)
        IN  /\ state' = Merge(state, update)
            /\ last' = Visit("generate_sql", update, <<>>, <<llm_out>>, <<>>)
    /\ node' = "execute_sql"
    /\ UNCHANGED <<db, llm, exec_outcome, validation, runs, checkpoints>>

\* whether the visit reaches the repair generator and the second execution
NeedsRepair(s, out1) ==
    /\ Truthy(s.sql_query)
    /\ ~IsUnsafe(s.sql_query[1])
    /\ ~execute_query(s.sql_query[1], out1).success
    /\ s.retry_count < 2

\* the return statement an execute_sql visit left by
ExecOutcome(r) ==
    IF r.calls = <<>>
    THEN IF r.update.error = Some(ERR_NO_SQL) THEN "no_sql" ELSE "unsafe"
    ELSE IF "results" \in DOMAIN r.update
         THEN IF "sql_query" \in DOMAIN r.update THEN "repaired" ELSE "direct"
         ELSE "failed"

ExecuteSqlWith(out1, llm_out, out2) ==
    LET r == execute_sql_node(state, out1, llm_out, out2)
        new == Merge(state, r.update)
    IN  /\ state' = new
        /\ node' = check_execution(new)
        /\ last' = Visit("execute_sql", r.update, r.calls,
                         Made(r.repairs, llm_out), <<>>)
        /\ exec_outcome' = ExecOutcome(r)
        /\ UNCHANGED <<db, llm, validation, runs, checkpoints>>

ExecuteSql ==
    /\ node = "execute_sql"
    /\ \E out1 \in DbOutcomes(db) :
        IF NeedsRepair(state, out1)
        THEN \E llm_out \in RepairOutcomes(llm), out2 \in DbOutcomes(db) :
                ExecuteSqlWith(out1, llm_out, out2)
        ELSE ExecuteSqlWith(out1, LlmOutcome(TRUE, E_BACKEND), out1)

FormatAnswer ==
    /\ node = "format_answer"
    /\ \E llm_out \in AnswerOutcomes(llm) :
        LET r == format_answer_node(state, llm_out)
        IN  /\ state' = Merge(state, r.update)
            /\ last' = Visit("format_answer", r.update, <<>>,
                             Made(r.llm_calls, llm_out), <<>>)
    /\ node' = "evaluate"
    /\ UNCHANGED <<db, llm, exec_outcome, validation, runs, checkpoints>>

Evaluate ==
    /\ node = "evaluate"
    /\ \E scorer_out \in ScorerOutcomes(llm) :
        LET r == evaluate_node(state, scorer_out)
        IN  /\ state' = Merge(state, r.update)
            /\ last' = Visit("evaluate", r.update, <<>>, <<>>,
                             Made(r.scorer_calls, scorer_out))
    /\ node' = "END"
    /\ UNCHANGED <<db, llm, exec_outcome, validation, runs, checkpoints>>

Next ==
    \/ GenerateSql
    \/ ExecuteSql
    \/ FormatAnswer
    \/ Evaluate

Spec == Init /\ [][Next]_vars

\* a run against the stubs of a retry test: an executor that fails on every
\* call, a backend that always returns safe SQL or always raises
StubInit == Init /\ db = "fails" /\ llm \in {"safe", "fails"}

\* the workflow runs a node whenever one is due
StubFairSpec == StubInit /\ [][Next]_vars /\ WF_vars(Next)

\* the handler of a submitted request: the gate first, the workflow behind it
UiInit ==
    /\ state = initial_state
    /\ node = "generate_sql"
    /\ db \in {"fails", "one_row"}
    /\ llm \in {"any", "fails"}
    /\ last = Visit("START", initial_state, <<>>, <<>>, <<>>)
    /\ exec_outcome = "none"
    /\ validation = Validation("pending", [is_sql_query |-> FALSE, response_text |-> Absent])
    /\ runs = [r \in Runs |-> IdleRun]
    /\ checkpoints = <<>>

ValidateQuery ==
    /\ validation.stage = "pending"
    /\ \E llm_out \in GateOutcomes(llm) :
        LET r == validate_query(USER_QUERY, llm_out)
        IN  /\ validation' = Validation("done", r)
            /\ last' = Visit("validate_query", r, <<>>, <<llm_out>>, <<>>)
    /\ UNCHANGED <<state, node, db, llm, exec_outcome, runs, checkpoints>>

UiNext ==
    \/ ValidateQuery
    \/ Next

UiSpec == UiInit /\ [][UiNext]_vars

\* the checkpointer create_graph makes for the graph of request r, all
\* requests sharing one
NewSaver_shared(r) == 0

\* the checkpointer create_graph makes for the graph of request r: a new
\* MemorySaver at every call
NewSaver(r) == r

\* the thread id of the config of a request handled at timestamp t
ThreadId(t) == <<"query_", t>>

\* where the checkpoints of a run are kept
CheckpointKey(run) == <<run.saver, run.thread_id>>

\* the store after the checkpointer of the run saved values
Put(store, run, values) == (CheckpointKey(run) :> values) @@ store

\* the handler creates the graph and its config and starts streaming
\* initial_state
StartRun(r) ==
    /\ runs[r].node = "NONE"
    /\ \E t \in Timestamps :
        LET run == [IdleRun EXCEPT !.node = "generate_sql",
                                   !.saver = NewSaver(r),
                                   !.thread_id = ThreadId(t)]
        IN  /\ runs' = [runs EXCEPT ![r] = run]
            /\ checkpoints' = Put(checkpoints, run, initial_state)
    /\ UNCHANGED <<state, node, db, llm, last, exec_outcome, validation>>

\* one node of run r has run: the values of the run after the merge of its
\* update are saved by the checkpointer of the run, and next is due
RunStep(r, new, next, outcome) ==
    LET run == [runs[r] EXCEPT !.state = new,
                               !.node = next,
                               !.outcomes = Append(@, outcome)]
    IN  /\ runs' = [runs EXCEPT ![r] = run]
        /\ checkpoints' = Put(checkpoints, run, new)
        /\ UNCHANGED <<state, node, db, llm, last, exec_outcome, validation>>

RunGenerateSql(r) ==
    /\ runs[r].node = "generate_sql"
    /\ GenVisits(runs[r].state) < MaxGenVisits
    /\ \E llm_out \in SqlOutcomes(llm) :
        RunStep(r, Merge(runs[r].state, generate_sql_node(runs[r].state, llm_out)),
                "execute_sql",
                [node |-> "generate_sql", llm_out |-> llm_out])

\* the execute_sql visit of run r on given outcomes of its collaborators
RunExecuteSqlWith(r, out1, llm_out, out2) ==
    LET update == execute_sql_node(runs[r].state, out1, llm_out, out2).update
        new == Merge(runs[r].state, update)
    IN  RunStep(r, new, check_execution(new),
                [node |-> "execute_sql", out1 |-> out1, llm_out |-> llm_out,
                 out2 |-> out2])

RunExecuteSql(r) ==
    /\ runs[r].node = "execute_sql"
    /\ \E out1 \in DbOutcomes(db) :
        IF NeedsRepair(runs[r].state, out1)
        THEN \E llm_out \in RepairOutcomes(llm), out2 \in DbOutcomes(db) :
                RunExecuteSqlWith(r, out1, llm_out, out2)
        ELSE RunExecuteSqlWith(r, out1, LlmOutcome(TRUE, E_BACKEND), out1)

RunFormatAnswer(r) ==
    /\ runs[r].node = "format_answer"
    /\ \E llm_out \in AnswerOutcomes(llm) :
        RunStep(r, Merge(runs[r].state, format_answer_node(runs[r].state, llm_out).update),
                "evaluate",
                [node |-> "format_answer", llm_out |-> llm_out])

RunEvaluate(r) ==
    /\ runs[r].node = "evaluate"
    /\ \E scorer_out \in ScorerOutcomes(llm) :
        RunStep(r, Merge(runs[r].state, evaluate_node(runs[r].state, scorer_out).update),
                "END",
                [node |-> "evaluate", scorer_out |-> scorer_out])

\* the handler reads the final state of its run from the checkpointer
GetState(r) ==
    /\ runs[r].node = "END"
    /\ runs[r].final = Absent
    /\ runs' = [runs EXCEPT ![r].final = Some(checkpoints[CheckpointKey(runs[r])])]
    /\ UNCHANGED <<state, node, db, llm, last, exec_outcome, validation, checkpoints>>

\* two requests whose workflow runs interleave node by node
ConcurrentInit ==
    /\ Init
    /\ db = "one_row"
    /\ llm \in {"safe", "fails"}

ConcurrentNext ==
    \E r \in Runs :
        \/ StartRun(r)
        \/ RunGenerateSql(r)
        \/ RunExecuteSql(r)
        \/ RunFormatAnswer(r)
        \/ RunEvaluate(r)
        \/ GetState(r)

ConcurrentSpec == ConcurrentInit /\ [][ConcurrentNext]_vars

TypeOK ==
    /\ \A r \in Runs : runs[r].node \in {"NONE", "generate_sql", "execute_sql",
                                          "format_answer", "evaluate", "END"}
    /\ validation.stage \in {"none", "pending", "done"}
    /\ validation.is_sql_query \in BOOLEAN
    /\ node \in {"generate_sql", "execute_sql", "format_answer", "evaluate", "END"}
    /\ state.retry_count \in Nat
    /\ db \in DbKinds
    /\ llm \in LlmKinds
    /\ exec_outcome \in {"none", "no_sql", "unsafe", "failed", "direct", "repaired"}

----------------------------------------------------------------------------
(* Properties *)

\* the retry bound of check_execution and execute_sql_node
RETRY_LIMIT == 2

\* an execute_sql visit reported an execution failure at some point of the run
ExecutionFailedBefore ==
    \E i \in 1..Len(state.messages) : state.messages[i][1] = "Error: "

C2_RetryCountBounded ==
    0 <= state.retry_count /\ state.retry_count <= RETRY_LIMIT

C2_Witness ==
    /\ state.retry_count = RETRY_LIMIT
    /\ exec_outcome = "failed"
    /\ node = "format_answer"

\* C3 (as claimed): when the generator fails on every attempt the run is
\* bounded: after the first generation and RETRY_LIMIT regenerations the
\* controller does not route back to generate_sql
C3_FailingGeneratorBounded ==
    (llm = "fails" /\ GenVisits(state) >= RETRY_LIMIT + 1) => node # "generate_sql"

\* the run ended with the retry budget exhausted and the latest execution failed
BudgetExhaustedAtEnd ==
    /\ node = "END"
    /\ state.retry_count = RETRY_LIMIT
    /\ exec_outcome = "failed"

\* C4 (as claimed): a run that ends with the retry budget exhausted and
\* execution still failing has error set and no answer
C4_ExhaustedHasNoAnswer ==
    BudgetExhaustedAtEnd => (Truthy(state.error) /\ state.answer = Absent)

\* C4 (amended): a run that ends with the retry budget exhausted and execution
\* still failing has error set and answer set to the error short-circuit text
\* "I encountered an error " + error
C4_ExhaustedHasErrorAnswer ==
    BudgetExhaustedAtEnd =>
        /\ Truthy(state.error)
        /\ state.answer = Some([kind |-> "error", error |-> state.error[1]])

C4_Witness ==
    /\ BudgetExhaustedAtEnd
    /\ state.error = Some(ErrExecution(E_SYNTAX))
    /\ state.results = Absent

\* the SQL string the safety check of the latest execute_sql visit examined
GateInput ==
    IF Len(last.calls) > 0 THEN last.calls[1].query
    ELSE IF state.sql_query = Absent THEN <<>> ELSE state.sql_query[1]

StartsWithSelect(S) == StartsWith(Upper(Strip(S)), KW_SELECT)

HasMutationKeyword(S) ==
    \E k \in {KW_DROP, KW_DELETE, KW_UPDATE, KW_INSERT} : Contains(Upper(S), k)

RejectedAsUnsafe ==
    "error" \in DOMAIN last.update /\ last.update.error = Some(ERR_UNSAFE)

\* C5: in an execute_sql visit, SQL that starts with SELECT (trimmed,
\* upper-cased) is never rejected by the safety check; SQL that does not and
\* contains DROP, DELETE, UPDATE or INSERT in any case is rejected with
\* "Unsafe SQL detected" and no executor call
C5_SafetyGateDecision ==
    last.node = "execute_sql" =>
        /\ StartsWithSelect(GateInput) => ~RejectedAsUnsafe
        /\ (~StartsWithSelect(GateInput) /\ HasMutationKeyword(GateInput)) =>
                /\ last.update = [error |-> Some(ERR_UNSAFE)]
                /\ last.calls = <<>>
                /\ state.error = Some(ERR_UNSAFE)

C5_Witness ==
    /\ last.node = "execute_sql"
    /\ GateInput = Q_DELETE
    /\ RejectedAsUnsafe
    /\ last.calls = <<>>

\* C6 (as claimed): every SQL string handed to the executor starts with SELECT
\* or contains none of DROP, DELETE, UPDATE, INSERT, the corrected SQL of the
\* repair path included
C6_ExecutedSqlPassedGate ==
    last.node = "execute_sql" =>
        \A i \in 1..Len(last.calls) :
            \/ StartsWithSelect(last.calls[i].query)
            \/ ~HasMutationKeyword(last.calls[i].query)

\* C7 (as claimed): when an execution failed earlier in the run and the latest
\* execute_sql visit succeeded, the run ends with an answer produced from the
\* results, not from the error short-circuit
C7_LaterSuccessSupersedesError ==
    (node = "END" /\ ExecutionFailedBefore /\ exec_outcome \in {"direct", "repaired"}) =>
        /\ state.answer # Absent
        /\ state.answer[1].kind \in {"backend", "template"}

\* C8 (as claimed): at END exactly one of error and results is populated
C8_ExactlyOneOfErrorOrResults ==
    node = "END" =>
        \/ (Truthy(state.error) /\ state.results = Absent)
        \/ (~Truthy(state.error) /\ state.results # Absent)

\* C9 (as claimed): whenever an execute_sql visit sets results, row_count is
\* the number of rows; after a write (executor columns null) columns and rows
\* are empty and row_count is 0; after a read without rows, rows is empty,
\* columns is non-null and row_count is 0
C9_ResultSetInvariant ==
    (last.node = "execute_sql" /\ "results" \in DOMAIN last.update) =>
        LET res == state.results[1]
            r == last.calls[Len(last.calls)].result
        IN  /\ res.row_count = Len(res.rows)
            /\ r.columns = Absent =>
                    /\ res.columns = Some(<<>>)
                    /\ res.rows = <<>>
                    /\ res.row_count = 0
            /\ (r.columns # Absent /\ r.data = <<>>) =>
                    /\ res.rows = <<>>
                    /\ res.columns # Absent
                    /\ res.row_count = 0

\* the statement is one the executor is to treat as a read
ClaimedRead(query) ==
    \E p \in {KW_SELECT, KW_SHOW, KW_DESCRIBE, KW_DESC, KW_EXPLAIN} :
        StartsWith(Upper(Strip(query)), p)

\* C10: a successful execute_query of a statement starting with SELECT, SHOW,
\* DESCRIBE, DESC or EXPLAIN (trimmed, upper-cased) returns the fetched rows
\* and non-null columns and commits nothing; of any other statement it commits
\* once and returns "Query executed successfully" with columns null
C10_ExecutorClassification ==
    last.node = "execute_sql" =>
        \A i \in 1..Len(last.calls) :
            LET query == last.calls[i].query
                r == last.calls[i].result
            IN  r.success =>
                    IF ClaimedRead(query)
                    THEN /\ r.data \in RowSets
                         /\ r.columns # Absent
                         /\ r.commits = 0
                    ELSE /\ r.data = WRITE_MESSAGE
                         /\ r.columns = Absent
                         /\ r.commits = 1

C10_Witness ==
    /\ last.node = "execute_sql"
    /\ Len(last.calls) = 1
    /\ last.calls[1].query = Q_SHOW
    /\ last.calls[1].result.success
    /\ last.calls[1].result.columns = Some(COLUMNS)
    /\ last.calls[1].result.data = <<"row">>

\* whether the message of an execution error names a stale connection
NamesStaleConnection(message) ==
    \E phrase \in {"gone away", "lost connection"} :
        Contains(Lower(message), phrase)

\* the (success, data, columns) an execute_query call returned
Returned(r) == <<r.success, r.data, r.columns>>

\* C11: in every execute_query call, a first execution that raises a
\* stale-connection error is followed by exactly one reconnect and exactly one
\* more execution of the same statement, and the call returns (false, the
\* second error, null) when that execution fails too; any other error is
\* returned as (false, error, null) without reconnect or second execution; no
\* call executes more than twice; and a visit whose only call recovered from
\* a stale connection neither writes error nor retry_count
C11_ReconnectOnce ==
    last.node = "execute_sql" =>
        /\ \A i \in 1..Len(last.calls) :
            LET out == last.calls[i].out
                r == last.calls[i].result
            IN  /\ r.executions <= 2
                /\ out.exc1 = Absent => r.executions = 1 /\ r.reconnects = 0
                /\ (out.exc1 # Absent /\ NamesStaleConnection(out.exc1[1])) =>
                        /\ r.reconnects = 1
                        /\ r.executions = 2
                        /\ out.exc2 # Absent =>
                                Returned(r) = <<FALSE, out.exc2[1], Absent>>
                        /\ out.exc2 = Absent => r.success
                /\ (out.exc1 # Absent /\ ~NamesStaleConnection(out.exc1[1])) =>
                        /\ Returned(r) = <<FALSE, out.exc1[1], Absent>>
                        /\ r.reconnects = 0
                        /\ r.executions = 1
        /\ (/\ Len(last.calls) = 1
            /\ last.calls[1].out.exc1 # Absent
            /\ last.calls[1].result.success) =>
                /\ "error" \notin DOMAIN last.update
                /\ "retry_count" \notin DOMAIN last.update

\* an execute_sql visit whose call lost the connection, reconnected and then
\* returned a row
C11_Witness ==
    /\ last.node = "execute_sql"
    /\ Len(last.calls) = 1
    /\ last.calls[1].out.exc1 = Some(E_LOST)
    /\ last.calls[1].result.reconnects = 1
    /\ last.calls[1].result.executions = 2
    /\ last.calls[1].result.success
    /\ state.retry_count = 0
    /\ state.error = Absent

\* the answer "I encountered an error " followed by the error
ErrorAnswer(error) == [kind |-> "error", error |-> error]

\* C12: whenever format_answer runs with error set, it sets answer to
\* "I encountered an error " followed by the error and calls the backend not
\* at all, whether or not results is present
C12_FormatterShortCircuit ==
    (last.node = "format_answer" /\ state.error # Absent) =>
        /\ last.update.answer = Some(ErrorAnswer(state.error[1]))
        /\ state.answer = Some(ErrorAnswer(state.error[1]))
        /\ last.backend_calls = 0

\* a format_answer visit with both error and results in the state
C12_Witness ==
    /\ last.node = "format_answer"
    /\ state.error # Absent
    /\ state.results # Absent
    /\ last.backend_calls = 0
    /\ state.answer = Some(ErrorAnswer(state.error[1]))

\* the answer "Results <row_count> rows found"
TemplateAnswer(row_count) == [kind |-> "template", row_count |-> row_count]

\* the latest visit was a format_answer visit with results present, no error
\* before it (none now, or one the visit wrote itself), and a backend call
\* that raised
FormatterBackendFailed ==
    /\ last.node = "format_answer"
    /\ state.results # Absent
    /\ "error" \in DOMAIN last.update \/ state.error = Absent
    /\ Len(last.backend) = 1
    /\ last.backend[1].raises

\* C13: when results is present, error is not set and the formatter's backend
\* call fails, format_answer sets answer to the templated text carrying
\* row_count, writes no error, and the run goes on to evaluate and from
\* there to the end
C13_FormatterDegradation ==
    /\ [](FormatterBackendFailed =>
            /\ state.answer = Some(TemplateAnswer(state.results[1].row_count))
            /\ "answer" \in DOMAIN last.update
            /\ "error" \notin DOMAIN last.update
            /\ state.error = Absent
            /\ node = "evaluate")
    /\ [][FormatterBackendFailed =>
            /\ last'.node = "evaluate"
            /\ node' = "END"
            /\ state'.error = Absent
            /\ state'.answer = state.answer]_vars

\* a run whose formatter backend failed, at the end with the templated answer
C13_Witness ==
    /\ node = "END"
    /\ state.error = Absent
    /\ state.results # Absent
    /\ state.answer = Some(TemplateAnswer(state.results[1].row_count))
    /\ \E i \in 1..Len(state.messages) :
            state.messages[i] = <<"Basic answer provided">>

\* C14: a run that is over has answer or error in its final state, and answer
\* was written exactly once during the run, by format_answer: the run is
\* never over without answer, and every step that writes answer is a
\* format_answer visit in a state where answer was not written before
C14_AnswerWrittenOnce ==
    /\ [](node = "END" =>
            /\ state.answer # Absent \/ state.error # Absent
            /\ state.answer # Absent)
    /\ [][("answer" \in DOMAIN last'.update \/ state'.answer # state.answer) =>
            /\ last'.node = "format_answer"
            /\ state.answer = Absent
            /\ state'.answer # Absent]_vars

\* a run that is over with an answer from the formatter's backend and no error
C14_Witness ==
    /\ node = "END"
    /\ state.error = Absent
    /\ state.answer = Some([kind |-> "backend", text |-> A_TEXT])

\* the scorer call of the latest visit raised
ScorerFailed == Len(last.scorer) = 1 /\ last.scorer[1].raises

\* C15: evaluate calls the scorer only when answer and sql_query are both
\* present (and not empty); when the scorer call fails the update holds no
\* evaluation_score and nothing but a trace entry, and the run is over after
\* the visit in either case
C15_EvaluatorBestEffort ==
    last.node = "evaluate" =>
        /\ last.scorer_calls <= 1
        /\ last.scorer_calls = 1 =>
                /\ state.answer # Absent
                /\ state.sql_query # Absent
                /\ AnswerTruthy(state.answer)
                /\ Truthy(state.sql_query)
        /\ ScorerFailed =>
                /\ DOMAIN last.update = {"messages"}
                /\ state.evaluation_score = Absent
        /\ node = "END"

\* a run that is over after a failed scorer call, with no score
C15_Witness ==
    /\ last.node = "evaluate"
    /\ ScorerFailed
    /\ node = "END"
    /\ state.evaluation_score = Absent
    /\ AnswerTruthy(state.answer)
    /\ Truthy(state.sql_query)

\* a run that is over without a scorer call because sql_query is empty
C15_SkippedWitness ==
    /\ last.node = "evaluate"
    /\ last.scorer_calls = 0
    /\ state.sql_query = Some(<<>>)
    /\ AnswerTruthy(state.answer)

\* number of format_answer visits so far: each appends one trace entry
FormatVisits(s) ==
    Cardinality({i \in 1..Len(s.messages) :
                    s.messages[i][1] \in {"AIMessage", "No results",
                                          "Basic answer provided", "Answer formatted"}})

\* number of evaluate visits so far: each appends one trace entry
EvaluateVisits(s) ==
    Cardinality({i \in 1..Len(s.messages) :
                    s.messages[i][1] \in {"Skipping evaluation", "Evaluation skipped",
                                          "Evaluation: "}})

\* the node that runs after the node that ran in a step
Routing ==
    /\ last'.node = node
    /\ node = "generate_sql" => node' = "execute_sql"
    /\ node = "execute_sql" =>
            node' = IF state'.error # Absent /\ state'.retry_count < RETRY_LIMIT
                    THEN "generate_sql"
                    ELSE "format_answer"
    /\ node = "format_answer" => node' = "evaluate"
    /\ node = "evaluate" => node' = "END"
    /\ node # "END"

\* C16: a run starts at generate_sql; generate_sql is always followed by
\* execute_sql; after execute_sql the run goes back to generate_sql exactly
\* when error is set and retry_count is below 2, and to format_answer
\* otherwise; format_answer is followed by evaluate and evaluate by the end;
\* format_answer and evaluate each run at most once, and never before an
\* execute_sql visit
C16_ControllerOrdering ==
    /\ node = "generate_sql"
    /\ [][Routing]_vars
    /\ [](/\ FormatVisits(state) <= 1
          /\ EvaluateVisits(state) <= 1
          /\ EvaluateVisits(state) <= FormatVisits(state)
          /\ (node \in {"format_answer", "evaluate", "END"}
                \/ FormatVisits(state) > 0) => exec_outcome # "none")

\* a run that went back to generate_sql once and is over after one
\* format_answer and one evaluate visit
C16_Witness ==
    /\ node = "END"
    /\ GenVisits(state) = 2
    /\ FormatVisits(state) = 1
    /\ EvaluateVisits(state) = 1
    /\ state.retry_count = RETRY_LIMIT

\* number of successful direct executions so far
DirectSuccesses(s) ==
    Cardinality({i \in 1..Len(s.messages) :
                    s.messages[i] = <<"Query executed successfully">>})

\* the collaborators of the happy path: a generator and formatter backend
\* that returns a SELECT statement and a non-empty answer, an executor that
\* returns one row at the first call
HappyCollaborators == db = "one_row" /\ llm = "safe"

FencedCompletion ==
    /\ last.node \in {"generate_sql", "execute_sql"}
    /\ Len(last.backend) = 1
    /\ ~last.backend[1].raises
    /\ StartsWith(Strip(last.backend[1].text), FENCE)
    /\ "sql_query" \in DOMAIN last.update

\* the text between the opening fence of a fenced completion and the next
\* fence
FirstFencedSegment(raw) ==
    LET opened == Strip(raw)
        inside == SubSeq(opened, Len(FENCE) + 1, Len(opened))
    IN  IF Contains(inside, FENCE)
        THEN SubSeq(inside, 1, Find(inside, FENCE) - 1)
        ELSE inside

\* a segment without the language tag it begins with
WithoutLeadingTag(segment) ==
    IF StartsWith(segment, LANG_TAG)
    THEN SubSeq(segment, Len(LANG_TAG) + 1, Len(segment))
    ELSE segment

\* C18: when the completion of the generator or repair generator is wrapped
\* in a fenced code block, sql_query is the first fenced segment with only the
\* leading language tag and the surrounding whitespace removed, no other
\* character of the body deleted
C18_FencedBodyUnchanged ==
    FencedCompletion =>
        last.update.sql_query =
            Some(Strip(WithoutLeadingTag(FirstFencedSegment(last.backend[1].text))))

\* a fenced completion whose body holds no further "sql" is cleaned as said
C18_PlainBodyWitness ==
    /\ FencedCompletion
    /\ last.backend[1].text = Q_SELECT_FENCED
    /\ state.sql_query = Some(Q_SELECT)

\* the gate's backend call of the latest visit returned a completion
GateReturned ==
    /\ last.node = "validate_query"
    /\ Len(last.backend) = 1
    /\ ~last.backend[1].raises

\* the gate's backend call of the latest visit raised
GateFailed ==
    /\ last.node = "validate_query"
    /\ Len(last.backend) = 1
    /\ last.backend[1].raises

\* a text without every character that is not a letter
OnlyLetters(s) ==
    SelectSeq(s, LAMBDA c : c \in DOMAIN UpperOf \cup DOMAIN LowerOf)

Accepted == [is_sql_query |-> TRUE, response_text |-> Absent]

Refused(response) == [is_sql_query |-> FALSE, response_text |-> Some(response)]

\* C19 as stated: validate_query returns (true, null) when the trimmed output
\* is TRUE in any case, or contains TRUE in any case and has fewer than 10
\* characters once every non-letter is stripped, and (false, the output) for
\* every other output
C19_GateAcceptsShortOutputWithTrue ==
    GateReturned =>
        LET output == Strip(last.backend[1].text)
        IN  last.update =
                IF \/ Upper(output) = TRUE_WORD
                   \/ /\ Contains(Upper(output), TRUE_WORD)
                      /\ Len(OnlyLetters(output)) < GATE_MAX_LEN
                THEN Accepted
                ELSE Refused(output)

\* C19: validate_query returns (true, null) when the trimmed output is TRUE
\* in any case, or contains TRUE in any case, has fewer than 10 characters
\* and is exactly TRUE once upper-cased and stripped of every character other
\* than A to Z; for every other output it returns (false, the trimmed output)
C19_GateAcceptsOnlyTheWordTrue ==
    GateReturned =>
        LET output == Strip(last.backend[1].text)
        IN  /\ last.update =
                IF \/ Upper(output) = TRUE_WORD
                   \/ /\ Contains(Upper(output), TRUE_WORD)
                      /\ Len(output) < GATE_MAX_LEN
                      /\ OnlyLetters(Upper(output)) = TRUE_WORD
                THEN Accepted
                ELSE Refused(output)
            /\ validation.is_sql_query = last.update.is_sql_query
            /\ validation.response_text = last.update.response_text

\* the gate let a request in whose output held the word between punctuation
C19_Witness ==
    /\ GateReturned
    /\ last.backend[1].text = G_TRUE_QUOTED
    /\ validation.stage = "done"
    /\ validation.is_sql_query
    /\ validation.response_text = Absent

\* the gate refused a short output that contains the word
C19_RefusedWitness ==
    /\ GateReturned
    /\ last.backend[1].text = G_NOT_TRUE
    /\ validation = Validation("done", Refused(G_NOT_TRUE))

\* C20: when the gate's backend call fails, validate_query returns
\* (true, null) and the workflow is entered at generate_sql; when
\* validate_query returns (false, response), no node of the workflow is
\* visited for the request
C20_GateFailsOpenAndShortCircuits ==
    /\ GateFailed =>
            /\ last.update = Accepted
            /\ validation = Validation("done", Accepted)
            /\ node = "generate_sql"
            /\ ENABLED GenerateSql
    /\ (validation.stage = "done" /\ ~validation.is_sql_query) =>
            /\ last.node = "validate_query"
            /\ state = initial_state
            /\ node = "generate_sql"
            /\ exec_outcome = "none"
            /\ ~ENABLED Next

\* a request let in by a failed gate call, its workflow under way
C20_Witness ==
    /\ validation = Validation("done", Accepted)
    /\ llm = "fails"
    /\ last.node = "execute_sql"
    /\ GenVisits(state) >= 1

\* a refused request
C20_RefusedWitness ==
    /\ validation.stage = "done"
    /\ ~validation.is_sql_query
    /\ validation.response_text = Some(G_GREETING)
    /\ state = initial_state

\* the latest visit was a generate_sql visit whose backend call raised
GeneratorFailed ==
    /\ last.node = "generate_sql"
    /\ Len(last.backend) = 1
    /\ last.backend[1].raises

\* C22: a generate_sql visit whose generator fails produces no SQL, and the
\* execute_sql visit that follows it finds no SQL, returns the error
\* "No SQL to execute" and calls the executor not at all, so that SQL an
\* earlier attempt left in the state is not executed
C22_FailedGenerationExecutesNothing ==
    /\ [](GeneratorFailed => "sql_query" \notin DOMAIN last.update)
    /\ [][(GeneratorFailed /\ node = "execute_sql") =>
            /\ last'.node = "execute_sql"
            /\ "error" \in DOMAIN last'.update
            /\ last'.update.error = Some(ERR_NO_SQL)
            /\ last'.calls = <<>>]_vars

\* the first generation failed and the execute_sql visit found no SQL
C22_FirstAttemptWitness ==
    /\ last.node = "execute_sql"
    /\ exec_outcome = "no_sql"
    /\ state.sql_query = Absent
    /\ state.messages[Len(state.messages)] = <<"Error : ", E_BACKEND>>

\* an execute_sql visit that ran the SQL of the first generation after the
\* regeneration failed
C22_StaleSqlExecuted ==
    /\ last.node = "execute_sql"
    /\ GenVisits(state) = 2
    /\ \E i \in 1..Len(state.messages) :
            state.messages[i] = <<"Error : ", E_BACKEND>>
    /\ Len(last.calls) >= 1
    /\ last.calls[1].query = Q_SELECT
    /\ state.sql_query = Some(Q_SELECT)

\* number of times the run went from execute_sql back to generate_sql
Reentries ==
    IF node = "generate_sql" THEN GenVisits(state) ELSE
    IF GenVisits(state) = 0 THEN 0 ELSE GenVisits(state) - 1

\* C23: the repair generator is called only in an execute_sql visit whose
\* first execution failed while retry_count was below 2, and once per visit
\* at most; every visit that calls it adds one to retry_count, which never
\* exceeds 2, so a run calls it twice at most; a visit calls the executor
\* twice at most; and a run goes from execute_sql back to generate_sql at
\* most 2 times, so the generator is called at most 3 times
C23_RepairBudget ==
    /\ [][last'.node = "execute_sql" =>
            /\ last'.backend_calls <= 1
            /\ Len(last'.calls) <= 2
            /\ last'.backend_calls = 1 =>
                    /\ Len(last'.calls) >= 1
                    /\ ~last'.calls[1].result.success
                    /\ state.retry_count < RETRY_LIMIT
                    /\ state'.retry_count = state.retry_count + 1]_vars
    /\ [](state.retry_count <= RETRY_LIMIT)
    /\ [](Reentries <= RETRY_LIMIT /\ GenVisits(state) <= RETRY_LIMIT + 1)

\* the repair part of the budget at work: a visit with retry_count 1 before
\* it whose repair was called once and whose executor was called twice
C23_RepairWitness ==
    /\ last.node = "execute_sql"
    /\ last.backend_calls = 1
    /\ Len(last.calls) = 2
    /\ state.retry_count = RETRY_LIMIT

\* a run sent back to generate_sql for the third time
C23_ThirdReentry ==
    /\ node = "generate_sql"
    /\ GenVisits(state) = RETRY_LIMIT + 1
    /\ state.retry_count < RETRY_LIMIT

\* the visit recorded in v called the repair generator and got no successful
\* execution out of it: the generator raised, or the repaired SQL failed
RepairFailed(v) ==
    /\ v.node = "execute_sql"
    /\ v.backend_calls = 1
    /\ \/ v.backend[1].raises
       \/ Len(v.calls) = 2 /\ ~v.calls[2].result.success

\* C24: an execute_sql visit whose repair yields no successful execution
\* reports the error of the first execution, that of the SQL generated
\* originally, as "Execution failed : " followed by its message, adds exactly
\* 1 to retry_count, leaves sql_query the original SQL and sets no results,
\* whether the repair generator raised or the repaired SQL failed
C24_FailedRepairReportsOriginalError ==
    [][RepairFailed(last') =>
        /\ "error" \in DOMAIN last'.update
        /\ last'.update.error = Some(<<"Execution failed : ", last'.calls[1].result.data>>)
        /\ state'.retry_count = state.retry_count + 1
        /\ state'.sql_query = state.sql_query
        /\ state'.sql_query = Some(last'.calls[1].query)
        /\ "results" \notin DOMAIN last'.update]_vars

\* the repair generator raised and the error of the first execution is
\* reported
C24_RaisedWitness ==
    /\ RepairFailed(last)
    /\ last.backend[1].raises
    /\ state.error = Some(<<"Execution failed : ", last.calls[1].result.data>>)

\* the repaired SQL failed with another message than the first execution, and
\* that message is the one reported
C24_RepairErrorReported ==
    /\ RepairFailed(last)
    /\ Len(last.calls) = 2
    /\ last.calls[1].result.data = E_SYNTAX
    /\ last.calls[2].result.data = E_LOST
    /\ state.error = Some(<<"Execution failed : ", E_LOST>>)

\* C25: every execute_sql visit that returns with error set and is routed
\* back to generate_sql strictly increases retry_count, which bounds the
\* generate_sql visits of a run whose every statement the safety gate
\* rejects; such a visit reports "Unsafe SQL detected" and calls the executor
\* not at all
C25_RejectionConsumesBudget ==
    /\ [](last.node = "execute_sql" /\ exec_outcome = "unsafe" =>
            /\ state.error = Some(ERR_UNSAFE)
            /\ last.calls = <<>>)
    /\ [][(node = "execute_sql" /\ node' = "generate_sql") =>
            /\ state'.error # Absent
            /\ state'.retry_count > state.retry_count]_vars

\* a run whose three statements were all rejected by the safety gate, sent
\* back to generate_sql with retry_count still 0
C25_RejectedAgain ==
    /\ node = "generate_sql"
    /\ exec_outcome = "unsafe"
    /\ GenVisits(state) = RETRY_LIMIT + 1
    /\ state.error = Some(ERR_UNSAFE)
    /\ state.retry_count = 0

\* C26: wherever results is set it is the outcome of a successful execution
\* of the SQL that sql_query holds: a visit that writes results writes all of
\* columns, rows and row_count from a successful call on the sql_query of the
\* state, and no later step changes sql_query without writing results anew
C26_ResultsBelongToSqlQuery ==
    /\ [](last.node = "execute_sql" /\ "results" \in DOMAIN last.update =>
            /\ Len(last.calls) >= 1
            /\ last.calls[Len(last.calls)].result.success
            /\ state.sql_query = Some(last.calls[Len(last.calls)].query)
            /\ DOMAIN state.results[1] = {"columns", "rows", "row_count"})
    /\ [][(state.results # Absent /\ state'.sql_query # state.sql_query) =>
            "results" \in DOMAIN last'.update]_vars

\* results written by a visit for the SQL it executed
C26_FreshWitness ==
    /\ last.node = "execute_sql"
    /\ "results" \in DOMAIN last.update
    /\ state.sql_query = Some(Q_SHOW)
    /\ last.calls[1].query = Q_SHOW

\* a run that is over with the results of an earlier statement and the
\* sql_query of a later one whose execution failed
C26_LeftoverAtEnd ==
    /\ node = "END"
    /\ exec_outcome = "failed"
    /\ state.results # Absent
    /\ state.results[1].row_count = 1
    /\ state.sql_query = Some(Q_DESC)
    /\ state.retry_count = RETRY_LIMIT

\* C27: no node writes user_query or schema, which keep their initial values
\* in every reachable state; a field that a node's update does not hold keeps
\* its previous value; and every visit appends its entries to messages,
\* leaving the earlier entries in place and in order
C27_FrameAndMerge ==
    /\ [](state.user_query = USER_QUERY /\ state.schema = SCHEMA)
    /\ [][/\ "user_query" \notin DOMAIN last'.update
          /\ "schema" \notin DOMAIN last'.update
          /\ \A k \in DOMAIN state \ {"messages"} :
                IF k \in DOMAIN last'.update
                THEN state'[k] = last'.update[k]
                ELSE state'[k] = state[k]
          /\ Len(state'.messages) >= Len(state.messages)
          /\ SubSeq(state'.messages, 1, Len(state.messages)) = state.messages
          /\ "messages" \in DOMAIN last'.update =>
                state'.messages = state.messages \o last'.update.messages
          /\ "messages" \notin DOMAIN last'.update =>
                state'.messages = state.messages]_vars

\* a state after a failed generate_sql visit that kept the sql_query of an
\* earlier visit and after an execute_sql visit that appended no entry
C27_Witness ==
    /\ last.node = "execute_sql"
    /\ "messages" \notin DOMAIN last.update
    /\ "sql_query" \notin DOMAIN last.update
    /\ state.sql_query = Some(Q_DROP)
    /\ Len(state.messages) = 3
    /\ state.messages[3] = <<"Error : ", E_BACKEND>>
    /\ state.user_query = USER_QUERY

\* the values the checkpointer of run r holds for the thread of the run
Saved(r) == checkpoints[CheckpointKey(runs[r])]

\* the state after one node visit on the given outcome of its collaborators
ApplyOutcome(s, o) ==
    Merge(s,
          CASE o.node = "generate_sql" -> generate_sql_node(s, o.llm_out)
            [] o.node = "execute_sql" ->
                    execute_sql_node(s, o.out1, o.llm_out, o.out2).update
            [] o.node = "format_answer" -> format_answer_node(s, o.llm_out).update
            [] OTHER -> evaluate_node(s, o.scorer_out).update)

\* the state of a run that meets the given outcomes alone
RECURSIVE RunAlone(_, _)
RunAlone(s, outcomes) ==
    IF outcomes = <<>>
    THEN s
    ELSE RunAlone(ApplyOutcome(s, Head(outcomes)), Tail(outcomes))

\* C21: two runs interleaved node by node each have their own state and
\* checkpoints: a step of one run changes neither the state nor the saved
\* checkpoint of the other, the checkpoint of a run holds the state of that
\* run, and the final state a run reads back after its end is the state the
\* run would have reached alone on the same collaborator outcomes
C21_RunsAreIsolated ==
    /\ [][\A r \in Runs : \A q \in Runs \ {r} :
            runs'[q] # runs[q] =>
                /\ runs'[r] = runs[r]
                /\ runs[r].node # "NONE" => Saved(r)' = Saved(r)]_vars
    /\ [](\A r \in Runs :
            /\ runs[r].node # "NONE" => Saved(r) = runs[r].state
            /\ runs[r].final # Absent =>
                /\ runs[r].final[1] = RunAlone(initial_state, runs[r].outcomes)
                /\ runs[r].final[1] = runs[r].state)

\* both runs have read back their final states, which differ, after starting
\* at the same timestamp
C21_Witness ==
    /\ \A r \in Runs : runs[r].final # Absent
    /\ runs[1].thread_id = runs[2].thread_id
    /\ runs[1].final # runs[2].final
    /\ runs[1].final[1].sql_query = Some(Q_SELECT)
    /\ runs[2].final[1].sql_query = Some(Q_SELECT_DROP)

====
